---- MODULE Spec2Model ----
(***************************************************************************)
(* Model of the three command-line utilities of the repository:            *)
(*   fibonacci.py, calculator.py and advanced_calculator.py.               *)
(* Each run is one process that reads lines of text from standard input,   *)
(* converts them, calls one computation function and prints lines.         *)
(*                                                                         *)
(* A line of input text is a sequence of one-character strings.            *)
(* A Python float is an exact rational n/d (d > 0, reduced) with the sign  *)
(* of zero kept in nz, so that 0.0 * -1.0 prints as -0.0.  The input sets  *)
(* below keep every result inside the range where float arithmetic is      *)
(* exact or correctly rounded to a short decimal (no overflow, no         *)
(* exponent notation in repr).  Standard input always has a next line:     *)
(* end of file and interrupts at a prompt are not part of the model.       *)
(***************************************************************************)
EXTENDS Integers, Sequences, FiniteSets, TLC

(***************************************************************************)
(* Bounds of the model.                                                    *)
(***************************************************************************)
\* largest index entered at the Fibonacci prompt
MaxN == 12
\* most negative index entered at the Fibonacci prompt is -MaxNeg
MaxNeg == 2
\* number of rejected selectors a run may enter before a valid one
MaxInvalid == 2
\* most fractional digits repr() is asked for in the model
MaxFracDigits == 12

(***************************************************************************)
(* Values.                                                                 *)
(***************************************************************************)
Abs(k) == IF k < 0 THEN -k ELSE k

RECURSIVE Gcd(_, _)
Gcd(p, q) == IF q = 0 THEN p ELSE Gcd(q, p % q)

\* the float n/d; a zero carries its sign in nz
Float(n, d, nz) ==
    LET g == Gcd(Abs(n), Abs(d))
        s == IF d < 0 THEN -1 ELSE 1
    IN  [t |-> "float", n |-> s * (n \div g), d |-> s * (d \div g),
         nz |-> (n = 0 /\ nz)]

\* a str object
Str(s) == [t |-> "str", s |-> s]

\* an int object
PyInt(k) == [t |-> "int", v |-> k]

\* a str object kept as its sequence of characters (a line of input)
Text(chars) == [t |-> "str", chars |-> chars]

\* a complex object (its components are not modelled)
Complex == [t |-> "complex"]

\* an exception propagating out of a call
Raise(e, msg) == [t |-> "raise", exc |-> e, msg |-> msg]

\* the content of a local variable that was never assigned
Unbound == [t |-> "unbound"]

IsFloat(v) == v.t = "float"
IsStr(v) == v.t = "str"
IsRaise(v) == v.t = "raise"

IsZero(x) == x.n = 0
Negative(x) == x.n < 0 \/ (x.n = 0 /\ x.nz)
Lt(x, y) == x.n * y.d < y.n * x.d
Neg(x) == Float(-x.n, x.d, x.n = 0 /\ ~x.nz)

RECURSIVE IntPow(_, _)
IntPow(b, e) == IF e = 0 THEN 1 ELSE b * IntPow(b, e - 1)

\* the exact integer square root of a perfect square
ISqrt(k) == CHOOSE r \in 0..k : r * r = k

(***************************************************************************)
(* Text conversions: int(text), float(text) and repr(float).               *)
(***************************************************************************)
DigitVal ==
    [c \in {"0", "1", "2", "3", "4", "5", "6", "7", "8", "9"} |->
        CASE c = "0" -> 0 [] c = "1" -> 1 [] c = "2" -> 2 [] c = "3" -> 3
          [] c = "4" -> 4 [] c = "5" -> 5 [] c = "6" -> 6 [] c = "7" -> 7
          [] c = "8" -> 8 [] c = "9" -> 9]

IsDigit(c) == c \in DOMAIN DigitVal

RECURSIVE Join(_)
Join(text) == IF text = <<>> THEN "" ELSE Head(text) \o Join(Tail(text))

\* the characters after an optional leading sign
Unsigned(text) ==
    IF text # <<>> /\ Head(text) \in {"-", "+"} THEN Tail(text) ELSE text

HasMinus(text) == text # <<>> /\ Head(text) = "-"

RECURSIVE DigitsValue(_)
DigitsValue(ds) ==
    IF ds = <<>> THEN 0
    ELSE 10 * DigitsValue(SubSeq(ds, 1, Len(ds) - 1)) + DigitVal[ds[Len(ds)]]

\* int(text): an int, or ValueError
ParseInt(text) ==
    LET body == Unsigned(text)
    IN  IF body # <<>> /\ \A i \in 1..Len(body) : IsDigit(body[i])
        THEN PyInt(IF HasMinus(text) THEN -DigitsValue(body) ELSE DigitsValue(body))
        ELSE Raise("ValueError",
                   "invalid literal for int() with base 10: '" \o Join(text) \o "'")

\* float(text): a float, or ValueError
ParseFloat(text) ==
    LET body == Unsigned(text)
        dots == {i \in 1..Len(body) : body[i] = "."}
        digs == SelectSeq(body, IsDigit)
        frac == IF dots = {} THEN 0 ELSE Len(body) - (CHOOSE i \in dots : TRUE)
    IN  IF /\ digs # <<>>
           /\ Cardinality(dots) <= 1
           /\ \A i \in 1..Len(body) : IsDigit(body[i]) \/ body[i] = "."
        THEN Float(IF HasMinus(text) THEN -DigitsValue(digs) ELSE DigitsValue(digs),
                   IntPow(10, frac), HasMinus(text))
        ELSE Raise("ValueError",
                   "could not convert string to float: '" \o Join(text) \o "'")

RECURSIVE FracDigits(_, _, _)
FracDigits(r, d, k) ==
    IF r = 0 \/ k = 0 THEN ""
    ELSE ToString((10 * r) \div d) \o FracDigits((10 * r) % d, d, k - 1)

\* repr(x) of a float in the fixed-notation range
Repr(x) ==
    LET m == Abs(x.n)
        f == FracDigits(m % x.d, x.d, MaxFracDigits)
    IN  (IF Negative(x) THEN "-" ELSE "") \o ToString(m \div x.d) \o "."
            \o (IF f = "" THEN "0" ELSE f)

\* str() of a value placed in an f-string
Show(v) ==
    CASE v.t = "float" -> Repr(v)
      [] v.t = "str" -> v.s
      [] v.t = "int" -> ToString(v.v)
      [] OTHER -> "<" \o v.t \o ">"

(***************************************************************************)
(* Computation functions of the calculators.                               *)
(***************************************************************************)
add(x, y) ==
    LET n == x.n * y.d + y.n * x.d
    IN  Float(n, x.d * y.d, x.n = 0 /\ y.n = 0 /\ x.nz /\ y.nz)

subtract(x, y) == add(x, Neg(y))

multiply(x, y) == Float(x.n * y.n, x.d * y.d, Negative(x) # Negative(y))

TrueDiv(x, y) == Float(x.n * y.d, x.d * y.n, Negative(x) # Negative(y))

\* divide answering a zero divisor with a number instead of the message
divide_ZeroSentinel(x, y) ==
    IF IsZero(y) THEN Float(0, 1, FALSE) ELSE TrueDiv(x, y)

divide(x, y) ==
    IF IsZero(y) THEN Str("Error: Division by zero is not allowed.")
    ELSE TrueDiv(x, y)

\* x ** y of two floats
power(x, y) ==
    IF IsZero(y) THEN Float(1, 1, FALSE)
    ELSE IF IsZero(x) /\ Negative(y)
    THEN Raise("ZeroDivisionError", "0.0 cannot be raised to a negative power")
    ELSE IF y.d # 1
    THEN IF Negative(x) THEN Complex
         ELSE LET e == IntPow(Abs(x.n), Abs(y.n))
                  g == IntPow(x.d, Abs(y.n))
                  rn == CHOOSE r \in 0..e : IntPow(r, y.d) = e
                  rd == CHOOSE r \in 1..g : IntPow(r, y.d) = g
              IN  IF y.n > 0 THEN Float(rn, rd, FALSE) ELSE Float(rd, rn, FALSE)
    ELSE LET e == Abs(y.n)
             odd == e % 2 = 1
         IN  IF y.n > 0
             THEN Float(IntPow(x.n, e), IntPow(x.d, e), Negative(x) /\ odd)
             ELSE Float(IntPow(x.d, e), IntPow(x.n, e), FALSE)

\* x % y of two floats: the result takes the sign of y
FloatMod(x, y) ==
    LET q == TrueDiv(x, y)
        k == q.n \div q.d
    IN  Float(x.n * y.d - k * y.n * x.d, x.d * y.d, Negative(y))

modulo(x, y) ==
    IF IsZero(y) THEN Str("Error: Modulo by zero is not allowed.")
    ELSE FloatMod(x, y)

\* square_root with the guard x <= 0
square_root_RejectsZero(x) ==
    IF ~Lt(Float(0, 1, FALSE), x)
    THEN Str("Error: Cannot take square root of a negative number.")
    ELSE Float(ISqrt(x.n), ISqrt(x.d), x.nz)

square_root(x) ==
    IF Lt(x, Float(0, 1, FALSE))
    THEN Str("Error: Cannot take square root of a negative number.")
    ELSE Float(ISqrt(x.n), ISqrt(x.d), x.nz)

(***************************************************************************)
(* Standard input: the lines a user may type at each prompt.               *)
(***************************************************************************)
DigitChar == [k \in 0..9 |-> CHOOSE c \in DOMAIN DigitVal : DigitVal[c] = k]

RECURSIVE NatText(_)
NatText(k) ==
    IF k < 10 THEN <<DigitChar[k]>>
    ELSE Append(NatText(k \div 10), DigitChar[k % 10])

IntText(k) == IF k < 0 THEN <<"-">> \o NatText(-k) ELSE NatText(k)

NotANumber == {<<"a", "b", "c">>, <<>>}

\* lines typed at "Enter a non-negative integer to get Fibonacci number: "
FibTexts ==
    {IntText(k) : k \in (-MaxNeg)..MaxN} \cup NotANumber \cup {<<"0", ".", "5">>}

\* lines typed at "Enter choice ..."
SelectorTexts == {IntText(k) : k \in {1, 2, 3, 4, 5, 6, 9}} \cup NotANumber

\* lines typed at "Enter first number: "
FirstTexts ==
    {IntText(k) : k \in {-1, 0, 2, 4, 5, 10, 16}} \cup {<<"0", ".", "5">>}
        \cup NotANumber

\* lines typed at "Enter second number: "
SecondTexts == {IntText(k) : k \in {-1, 0, 2, 5}} \cup NotANumber

\* lines typed at "Enter a number: "
NumberTexts ==
    {IntText(k) : k \in {-1, 0, 4, 16}} \cup {<<"0", ".", "2", "5">>}
        \cup NotANumber

(***************************************************************************)
(* State of one run.                                                       *)
(***************************************************************************)
VARIABLES
    prog,       \* the program that runs
    pc,         \* position of the run
    inputs,     \* lines read from standard input so far
    prompts,    \* prompts written by input()
    out,        \* lines written by print()
    rejected,   \* selectors rejected by the menu loop so far
    choice,     \* local: the accepted selector
    num,        \* local: num1 (calculator) or num (advanced_calculator)
    num2,       \* local: num2
    result,     \* local: value of the computation
    called,     \* computation functions called, with their arguments
    exc,        \* exception that left the program uncaught
    n,          \* fibonacci: user_input / n
    ab,         \* fibonacci: the pair (a, b)
    i,          \* fibonacci: the loop variable
    updates     \* fibonacci: number of executions of the loop body

vars == <<prog, pc, inputs, prompts, out, rejected, choice, num, num2, result,
          called, exc, n, ab, i, updates>>

Programs == {"fibonacci", "calculator", "advanced_calculator"}

CalcMenu ==
    <<"Simple Calculator", "Select operation:", "1. Add", "2. Subtract",
      "3. Divide">>

AdvMenu ==
    <<"Advanced Calculator", "Select operation:", "1. Add", "2. Multiply",
      "3. Divide", "4. Power (x^y)", "5. Modulo (x % y)", "6. Square Root">>

\* the run has printed its menu and stands at its first input() call
Init ==
    /\ prog \in Programs
    /\ pc = IF prog = "fibonacci" THEN "fib_input" ELSE "awaiting_choice"
    /\ inputs = <<>>
    /\ prompts = <<>>
    /\ out = CASE prog = "calculator" -> CalcMenu
               [] prog = "advanced_calculator" -> AdvMenu
               [] OTHER -> <<>>
    /\ rejected = 0
    /\ choice = Unbound
    /\ num = Unbound
    /\ num2 = Unbound
    /\ result = Unbound
    /\ called = <<>>
    /\ exc = Unbound
    /\ n = Unbound
    /\ ab = Unbound
    /\ i = Unbound
    /\ updates = 0

\* input(prompt) returning text
Input(prompt, text) ==
    /\ prompts' = Append(prompts, prompt)
    /\ inputs' = Append(inputs, text)

(***************************************************************************)
(* fibonacci.py                                                            *)
(***************************************************************************)
\* the except clause of the main block
FibHandler(e) ==
    /\ out' = Append(out, "Invalid input: " \o e.msg)
    /\ pc' = "terminal"

\* user_input = int(input(...))
FibInput ==
    /\ prog = "fibonacci" /\ pc = "fib_input"
    /\ \E text \in FibTexts :
        /\ Input("Enter a non-negative integer to get Fibonacci number: ", text)
        /\ LET v == ParseInt(text)
           IN  IF IsRaise(v)
               THEN FibHandler(v) /\ UNCHANGED n
               ELSE n' = v /\ pc' = "fib_call" /\ UNCHANGED out
    /\ UNCHANGED <<prog, rejected, choice, num, num2, result, called, exc,
                   ab, i, updates>>

\* one execution of the loop body: a, b = b, a + b
FibStep(p) == <<p[2], p[1] + p[2]>>

\* the loop stopping one iteration early: range(2, n)
FibLast_OffByOne(k) == k - 1

\* the last value of range(2, n + 1)
FibLast(k) == k

\* the argument check letting -1 through: n < -1
FibInvalid_Loose(k) == k < -1

\* the test n < 0 that rejects the argument
FibInvalid(k) == k < 0

\* fibonacci(n) up to the loop: the argument check and the two base cases
FibEnter ==
    /\ prog = "fibonacci" /\ pc = "fib_call"
    /\ called' = Append(called, [f |-> "fibonacci", args |-> <<n>>])
    /\ IF FibInvalid(n.v)
       THEN /\ FibHandler(Raise("ValueError", "Input must be a non-negative integer."))
            /\ UNCHANGED <<result, ab, i>>
       ELSE IF n.v = 0
       THEN result' = PyInt(0) /\ pc' = "fib_print" /\ UNCHANGED <<out, ab, i>>
       ELSE IF n.v = 1
       THEN result' = PyInt(1) /\ pc' = "fib_print" /\ UNCHANGED <<out, ab, i>>
       ELSE ab' = <<0, 1>> /\ i' = 2 /\ pc' = "fib_loop" /\ UNCHANGED <<out, result>>
    /\ UNCHANGED <<prog, inputs, prompts, rejected, choice, num, num2, exc, n,
                   updates>>

\* for _ in range(2, n + 1): a, b = b, a + b
FibLoop ==
    /\ prog = "fibonacci" /\ pc = "fib_loop"
    /\ i <= FibLast(n.v)
    /\ ab' = FibStep(ab)
    /\ i' = i + 1
    /\ updates' = updates + 1
    /\ UNCHANGED <<prog, pc, inputs, prompts, out, rejected, choice, num, num2,
                   result, called, exc, n>>

\* return b
FibReturn ==
    /\ prog = "fibonacci" /\ pc = "fib_loop"
    /\ i > FibLast(n.v)
    /\ result' = PyInt(ab[2])
    /\ pc' = "fib_print"
    /\ UNCHANGED <<prog, inputs, prompts, out, rejected, choice, num, num2,
                   called, exc, n, ab, i, updates>>

FibLine(k, v) ==
    "Fibonacci number at position " \o Show(k) \o " is: " \o Show(v)

\* print(f"Fibonacci number at position {user_input} is: {...}")
FibPrint ==
    /\ prog = "fibonacci" /\ pc = "fib_print"
    /\ out' = Append(out, FibLine(n, result))
    /\ pc' = "terminal"
    /\ UNCHANGED <<prog, inputs, prompts, rejected, choice, num, num2, result,
                   called, exc, n, ab, i, updates>>

(***************************************************************************)
(* calculator.py                                                           *)
(***************************************************************************)
\* the tuple ('1', '2', '3')
CalcChoices == {<<"1">>, <<"2">>, <<"3">>}

\* while True: choice = input(...); if choice in (...): break; print(...)
CalcChoice ==
    /\ prog = "calculator" /\ pc = "awaiting_choice"
    /\ \E text \in SelectorTexts :
        /\ Input("Enter choice (1/2/3): ", text)
        /\ IF text \in CalcChoices
           THEN /\ choice' = Text(text)
                /\ pc' = "awaiting_operands"
                /\ UNCHANGED <<out, rejected>>
           ELSE /\ rejected < MaxInvalid
                /\ out' = Append(out, "Invalid input, please enter 1, 2, or 3.")
                /\ rejected' = rejected + 1
                /\ UNCHANGED <<pc, choice>>
    /\ UNCHANGED <<prog, num, num2, result, called, exc, n, ab, i, updates>>

\* the except ValueError clause: print and return
CalcConversionError ==
    /\ out' = Append(out, "Invalid input. Please enter numeric values.")
    /\ pc' = "terminal"

\* num1 = float(input("Enter first number: "))
CalcFirst ==
    /\ prog = "calculator" /\ pc = "awaiting_operands" /\ num = Unbound
    /\ \E text \in FirstTexts :
        /\ Input("Enter first number: ", text)
        /\ LET v == ParseFloat(text)
           IN  IF IsRaise(v)
               THEN CalcConversionError /\ UNCHANGED num
               ELSE num' = v /\ UNCHANGED <<pc, out>>
    /\ UNCHANGED <<prog, rejected, choice, num2, result, called, exc, n, ab, i,
                   updates>>

\* num2 = float(input("Enter second number: "))
CalcSecond ==
    /\ prog = "calculator" /\ pc = "awaiting_operands" /\ num # Unbound
    /\ \E text \in SecondTexts :
        /\ Input("Enter second number: ", text)
        /\ LET v == ParseFloat(text)
           IN  IF IsRaise(v)
               THEN CalcConversionError /\ UNCHANGED num2
               ELSE num2' = v /\ pc' = "computing" /\ UNCHANGED out
    /\ UNCHANGED <<prog, rejected, choice, num, result, called, exc, n, ab, i,
                   updates>>

\* the branch for '3' falling through to the one for '1'
CalcCall_ThreeAdds(c, x, y) ==
    CASE c = <<"1">> -> [f |-> "add", args |-> <<x, y>>, val |-> add(x, y)]
      [] c = <<"2">> -> [f |-> "subtract", args |-> <<x, y>>, val |-> subtract(x, y)]
      [] c = <<"3">> -> [f |-> "add", args |-> <<x, y>>, val |-> add(x, y)]

\* the function each branch of the if/elif chain calls, and its value
CalcCall(c, x, y) ==
    CASE c = <<"1">> -> [f |-> "add", args |-> <<x, y>>, val |-> add(x, y)]
      [] c = <<"2">> -> [f |-> "subtract", args |-> <<x, y>>, val |-> subtract(x, y)]
      [] c = <<"3">> -> [f |-> "divide", args |-> <<x, y>>, val |-> divide(x, y)]

\* the f-string each branch prints
CalcLine(c, x, y, r) ==
    CASE c = <<"1">> -> Show(x) \o " + " \o Show(y) \o " = " \o Show(r)
      [] c = <<"2">> -> Show(x) \o " - " \o Show(y) \o " = " \o Show(r)
      [] c = <<"3">> -> Show(x) \o " / " \o Show(y) \o " = " \o Show(r)

\* the call inside the branch selected by choice
CalcCompute ==
    /\ prog = "calculator" /\ pc = "computing"
    /\ LET c == CalcCall(choice.chars, num, num2)
       IN  /\ called' = Append(called, [f |-> c.f, args |-> c.args])
           /\ result' = c.val
    /\ pc' = "printing_result"
    /\ UNCHANGED <<prog, inputs, prompts, out, rejected, choice, num, num2, exc,
                   n, ab, i, updates>>

\* the print of the branch selected by choice
CalcPrint ==
    /\ prog = "calculator" /\ pc = "printing_result"
    /\ out' = Append(out, CalcLine(choice.chars, num, num2, result))
    /\ pc' = "terminal"
    /\ UNCHANGED <<prog, inputs, prompts, rejected, choice, num, num2, result,
                   called, exc, n, ab, i, updates>>

(***************************************************************************)
(* advanced_calculator.py                                                  *)
(***************************************************************************)
\* the tuple ('1','2','3','4','5','6')
AdvChoices == {<<"1">>, <<"2">>, <<"3">>, <<"4">>, <<"5">>, <<"6">>}

\* while True: choice = input(...); if choice in (...): break; print(...)
AdvChoice ==
    /\ prog = "advanced_calculator" /\ pc = "awaiting_choice"
    /\ \E text \in SelectorTexts :
        /\ Input("Enter choice (1-6): ", text)
        /\ IF text \in AdvChoices
           THEN /\ choice' = Text(text)
                /\ pc' = "awaiting_operands"
                /\ UNCHANGED <<out, rejected>>
           ELSE /\ rejected < MaxInvalid
                /\ out' = Append(out,
                        "Invalid input, please enter a number between 1 and 6.")
                /\ rejected' = rejected + 1
                /\ UNCHANGED <<pc, choice>>
    /\ UNCHANGED <<prog, num, num2, result, called, exc, n, ab, i, updates>>

\* the except clause printing its message and asking for the operand again
AdvConversionError_Retry ==
    /\ out' = Append(out, "Invalid input. Please enter numeric values.")
    /\ pc' = pc

\* the except clause going back to the menu loop
AdvConversionError_Restart ==
    /\ out' = Append(out, "Invalid input. Please enter numeric values.")
    /\ pc' = "awaiting_choice"

\* the except ValueError clause: print and return
AdvConversionError ==
    /\ out' = Append(out, "Invalid input. Please enter numeric values.")
    /\ pc' = "terminal"

\* the test choice == '6' that selects the one-operand branch
AdvUnary(c) == c = <<"6">>

\* num = float(input("Enter a number: "))
AdvNumber ==
    /\ prog = "advanced_calculator" /\ pc = "awaiting_operands"
    /\ AdvUnary(choice.chars) /\ num = Unbound
    /\ \E text \in NumberTexts :
        /\ Input("Enter a number: ", text)
        /\ LET v == ParseFloat(text)
           IN  IF IsRaise(v)
               THEN AdvConversionError /\ UNCHANGED num
               ELSE num' = v /\ pc' = "computing" /\ UNCHANGED out
    /\ UNCHANGED <<prog, rejected, choice, num2, result, called, exc, n, ab, i,
                   updates>>

\* num = float(input("Enter first number: "))
AdvFirst ==
    /\ prog = "advanced_calculator" /\ pc = "awaiting_operands"
    /\ ~AdvUnary(choice.chars) /\ num = Unbound
    /\ \E text \in FirstTexts :
        /\ Input("Enter first number: ", text)
        /\ LET v == ParseFloat(text)
           IN  IF IsRaise(v)
               THEN AdvConversionError /\ UNCHANGED num
               ELSE num' = v /\ UNCHANGED <<pc, out>>
    /\ UNCHANGED <<prog, rejected, choice, num2, result, called, exc, n, ab, i,
                   updates>>

\* num2 = float(input("Enter second number: "))
AdvSecond ==
    /\ prog = "advanced_calculator" /\ pc = "awaiting_operands"
    /\ ~AdvUnary(choice.chars) /\ num # Unbound
    /\ \E text \in SecondTexts :
        /\ Input("Enter second number: ", text)
        /\ LET v == ParseFloat(text)
           IN  IF IsRaise(v)
               THEN AdvConversionError /\ UNCHANGED num2
               ELSE num2' = v /\ pc' = "computing" /\ UNCHANGED out
    /\ UNCHANGED <<prog, rejected, choice, num, result, called, exc, n, ab, i,
                   updates>>

\* the branch for '2' calling add, as the branch above it does
AdvCall_TwoAdds(c, x, y) ==
    CASE c = <<"1">> -> [f |-> "add", args |-> <<x, y>>, val |-> add(x, y)]
      [] c = <<"2">> -> [f |-> "add", args |-> <<x, y>>, val |-> add(x, y)]
      [] c = <<"3">> -> [f |-> "divide", args |-> <<x, y>>, val |-> divide(x, y)]
      [] c = <<"4">> -> [f |-> "power", args |-> <<x, y>>, val |-> power(x, y)]
      [] c = <<"5">> -> [f |-> "modulo", args |-> <<x, y>>, val |-> modulo(x, y)]
      [] c = <<"6">> -> [f |-> "square_root", args |-> <<x>>, val |-> square_root(x)]

\* the function each branch of the if/elif chain calls, and its value
AdvCall(c, x, y) ==
    CASE c = <<"1">> -> [f |-> "add", args |-> <<x, y>>, val |-> add(x, y)]
      [] c = <<"2">> -> [f |-> "multiply", args |-> <<x, y>>, val |-> multiply(x, y)]
      [] c = <<"3">> -> [f |-> "divide", args |-> <<x, y>>, val |-> divide(x, y)]
      [] c = <<"4">> -> [f |-> "power", args |-> <<x, y>>, val |-> power(x, y)]
      [] c = <<"5">> -> [f |-> "modulo", args |-> <<x, y>>, val |-> modulo(x, y)]
      [] c = <<"6">> -> [f |-> "square_root", args |-> <<x>>, val |-> square_root(x)]

\* the f-string each branch prints
AdvLine(c, x, y, r) ==
    CASE c = <<"1">> -> Show(x) \o " + " \o Show(y) \o " = " \o Show(r)
      [] c = <<"2">> -> Show(x) \o " * " \o Show(y) \o " = " \o Show(r)
      [] c = <<"3">> -> Show(x) \o " / " \o Show(y) \o " = " \o Show(r)
      [] c = <<"4">> -> Show(x) \o " ^ " \o Show(y) \o " = " \o Show(r)
      [] c = <<"5">> -> Show(x) \o " % " \o Show(y) \o " = " \o Show(r)
      [] c = <<"6">> -> "Square root of " \o Show(x) \o " = " \o Show(r)

\* the call inside the branch selected by choice; an exception it raises is
\* caught nowhere and ends the process
AdvCompute ==
    /\ prog = "advanced_calculator" /\ pc = "computing"
    /\ LET c == AdvCall(choice.chars, num, num2)
       IN  /\ called' = Append(called, [f |-> c.f, args |-> c.args])
           /\ IF IsRaise(c.val)
              THEN exc' = c.val /\ pc' = "terminal" /\ UNCHANGED result
              ELSE result' = c.val /\ pc' = "printing_result" /\ UNCHANGED exc
    /\ UNCHANGED <<prog, inputs, prompts, out, rejected, choice, num, num2,
                   n, ab, i, updates>>

\* the print of the branch selected by choice
AdvPrint ==
    /\ prog = "advanced_calculator" /\ pc = "printing_result"
    /\ out' = Append(out, AdvLine(choice.chars, num, num2, result))
    /\ pc' = "terminal"
    /\ UNCHANGED <<prog, inputs, prompts, rejected, choice, num, num2, result,
                   called, exc, n, ab, i, updates>>

(***************************************************************************)
(* Specification.                                                          *)
(***************************************************************************)
Next ==
    \/ FibInput
    \/ FibEnter
    \/ FibLoop
    \/ FibReturn
    \/ FibPrint
    \/ CalcChoice
    \/ CalcFirst
    \/ CalcSecond
    \/ CalcCompute
    \/ CalcPrint
    \/ AdvChoice
    \/ AdvNumber
    \/ AdvFirst
    \/ AdvSecond
    \/ AdvCompute
    \/ AdvPrint

Spec == Init /\ [][Next]_vars

(***************************************************************************)
(* Properties.                                                             *)
(***************************************************************************)
Last(seq) == seq[Len(seq)]

\* the Fibonacci sequence by its recurrence
RECURSIVE Fib(_)
Fib(k) == IF k = 0 THEN 0 ELSE IF k = 1 THEN 1 ELSE Fib(k - 1) + Fib(k - 2)

\* the index typed at the Fibonacci prompt, converted
FibArg == ParseInt(inputs[1])

\* C1: for every non-negative n, fibonacci(n) returns the n-th Fibonacci
\* number (0 for 0, 1 for 1, the sum of the two previous ones from 2 on, 55
\* for 10); from 2 on it is the second running value after exactly n-1
\* executions of the loop body, below 2 the loop is not entered; the value
\* returned is the one printed for the position typed.
C1_FibonacciValue ==
    prog = "fibonacci" =>
        /\ pc = "fib_print" =>
            /\ n.v >= 0
            /\ result = PyInt(Fib(n.v))
            /\ n.v = 10 => result.v = 55
            /\ updates = IF n.v >= 2 THEN n.v - 1 ELSE 0
            /\ n.v >= 2 => result.v = ab[2] /\ ab[1] = Fib(n.v - 1)
        /\ (pc = "terminal" /\ ~IsRaise(FibArg) /\ FibArg.v >= 0) =>
            out = <<FibLine(FibArg, PyInt(Fib(FibArg.v)))>>

C1_Witness ==
    /\ prog = "fibonacci" /\ pc = "terminal"
    /\ inputs = <<IntText(10)>>
    /\ updates = 9
    /\ out = <<"Fibonacci number at position 10 is: 55">>

\* C6: fibonacci(n) for a negative n raises the invalid-argument error and
\* returns no value; the program then prints exactly one line, "Invalid
\* input: " followed by the message, and no "Fibonacci number at position"
\* line; text that is not an integer ends in the same handler with the
\* conversion's message, without fibonacci being called.
C6_NegativeRejected ==
    (prog = "fibonacci" /\ pc = "terminal") =>
        /\ (~IsRaise(FibArg) /\ FibArg.v < 0) =>
            /\ out = <<"Invalid input: Input must be a non-negative integer.">>
            /\ result = Unbound
            /\ called = <<[f |-> "fibonacci", args |-> <<FibArg>>]>>
            /\ updates = 0
        /\ IsRaise(FibArg) =>
            /\ out = <<"Invalid input: " \o FibArg.msg>>
            /\ result = Unbound
            /\ called = <<>>
        /\ (IsRaise(FibArg) \/ FibArg.v < 0) =>
            \A k \in 0..MaxN, v \in 0..Fib(MaxN) : Last(out) # FibLine(PyInt(k), PyInt(v))

C6_Witness ==
    /\ prog = "fibonacci" /\ pc = "terminal"
    /\ inputs = <<IntText(-1)>>
    /\ out = <<"Invalid input: Input must be a non-negative integer.">>

(***************************************************************************)
(* Properties of the two calculators.                                      *)
(***************************************************************************)
IsCalc == prog \in {"calculator", "advanced_calculator"}

Menu == IF prog = "calculator" THEN CalcMenu ELSE AdvMenu

RejectLine ==
    IF prog = "calculator" THEN "Invalid input, please enter 1, 2, or 3."
    ELSE "Invalid input, please enter a number between 1 and 6."

ConversionLine == "Invalid input. Please enter numeric values."

\* the menu followed by one rejection line per rejected selector
MenuAndRejections == Menu \o [j \in 1..rejected |-> RejectLine]

\* the lines read, and the prompts written, after the accepted selector
OperandInputs == SubSeq(inputs, rejected + 2, Len(inputs))
OperandPrompts == SubSeq(prompts, rejected + 2, Len(prompts))

\* every operand the selector asks for was read and converted
OperandsConverted ==
    /\ choice # Unbound
    /\ num # Unbound
    /\ (prog = "advanced_calculator" /\ choice.chars = <<"6">>) \/ num2 # Unbound

SameNumber(x, y) == x.n * y.d = y.n * x.d

\* C4: in both calculators, once the text typed for an operand fails the
\* numeric conversion the run has printed the invalid-input message as its
\* last line and has ended: that text is the last line read (no prompt is
\* repeated, no further operand is asked for), no computation function has
\* been called and no result line is printed.
C4_ConversionAborts ==
    IsCalc =>
        \A j \in 1..Len(OperandInputs) :
            IsRaise(ParseFloat(OperandInputs[j])) =>
                /\ pc = "terminal"
                /\ j = Len(OperandInputs)
                /\ Len(prompts) = Len(inputs)
                /\ called = <<>>
                /\ result = Unbound
                /\ exc = Unbound
                /\ out = MenuAndRejections \o <<ConversionLine>>

C4_Witness ==
    /\ prog = "advanced_calculator" /\ pc = "terminal"
    /\ choice.chars = <<"3">>
    /\ OperandInputs = <<IntText(10), <<"a", "b", "c">>>>
    /\ Last(out) = ConversionLine

\* C5: divide(x, y) and modulo(x, y) return the error indicator, a text and
\* not a number, exactly when y is zero, and never raise; for a non-zero y
\* they return the quotient x / y, resp. the remainder of x by y (of the sign
\* of y, smaller than y in magnitude, x minus it a multiple of y);
\* divide(10, 2) is 5.0; the run prints its result line with that value or
\* indicator after the "=".
C5_ZeroDivisorIndicator ==
    (IsCalc /\ called # <<>> /\ called[1].f \in {"divide", "modulo"}) =>
        LET x == called[1].args[1]
            y == called[1].args[2]
            sym == IF called[1].f = "divide" THEN " / " ELSE " % "
        IN  /\ Len(called) = 1
            /\ exc = Unbound
            /\ pc \in {"printing_result", "terminal"}
            /\ IsStr(result) <=> IsZero(y)
            /\ IsFloat(result) <=> ~IsZero(y)
            /\ (called[1].f = "divide" /\ ~IsZero(y)) =>
                    SameNumber(multiply(result, y), x)
            /\ (called[1].f = "modulo" /\ ~IsZero(y)) =>
                    /\ TrueDiv(subtract(x, result), y).d = 1
                    /\ IF y.n > 0
                       THEN result.n >= 0 /\ Lt(result, y)
                       ELSE result.n <= 0 /\ Lt(y, result)
            /\ (called[1].f = "divide" /\ Show(x) = "10.0" /\ Show(y) = "2.0") =>
                    Show(result) = "5.0"
            /\ pc = "terminal" =>
                    out = MenuAndRejections
                            \o <<Show(x) \o sym \o Show(y) \o " = " \o Show(result)>>

C5_Witness ==
    /\ prog = "advanced_calculator" /\ pc = "terminal"
    /\ OperandInputs = <<IntText(10), IntText(0)>>
    /\ Last(out) = "10.0 % 0.0 = Error: Modulo by zero is not allowed."

\* C9: square_root(x) returns the error indicator, a text and not a number,
\* exactly when x is negative, and never raises; otherwise it returns the
\* non-negative number whose square is x (4.0 for 16, a number for 0); the
\* run for choice 6 prints "Square root of {a} = {result}" in both cases.
C9_SquareRoot ==
    (prog = "advanced_calculator" /\ called # <<>> /\ called[1].f = "square_root") =>
        LET x == called[1].args[1]
        IN  /\ Len(called) = 1
            /\ exc = Unbound
            /\ pc \in {"printing_result", "terminal"}
            /\ IsStr(result) <=> x.n < 0
            /\ IsFloat(result) <=> x.n >= 0
            /\ x.n >= 0 => result.n >= 0 /\ SameNumber(multiply(result, result), x)
            /\ Show(x) = "16.0" => Show(result) = "4.0"
            /\ pc = "terminal" =>
                    out = MenuAndRejections
                            \o <<"Square root of " \o Show(x) \o " = " \o Show(result)>>

C9_Witness ==
    /\ prog = "advanced_calculator" /\ pc = "terminal"
    /\ OperandInputs = <<IntText(-1)>>
    /\ Last(out) = "Square root of -1.0 = Error: Cannot take square root of a negative number."

\* the function and the operator symbol that belong to each selector
C10_Function(c) ==
    CASE c = <<"1">> -> "add" [] c = <<"2">> -> "multiply" [] c = <<"3">> -> "divide"
      [] c = <<"4">> -> "power" [] c = <<"5">> -> "modulo" [] c = <<"6">> -> "square_root"

C10_Symbol(c) ==
    CASE c = <<"1">> -> " + " [] c = <<"2">> -> " * " [] c = <<"3">> -> " / "
      [] c = <<"4">> -> " ^ " [] c = <<"5">> -> " % "

C10_Prompts(c) ==
    IF c = <<"6">> THEN <<"Enter a number: ">>
    ELSE <<"Enter first number: ", "Enter second number: ">>

\* C10: in the advanced calculator the accepted selector determines the
\* operands: the prompts written after it are the one prompt of selector 6,
\* resp. the first-number and then the second-number prompt of selectors
\* 1-5, never more and never in another order (a run cut short by a failed
\* conversion has written a prefix of them); a run that calls a computation
\* function has read exactly that many operands and calls the function of its
\* selector on exactly the operands read, num2 staying unassigned and unused
\* under selector 6; a result line carries the symbol of the selector.
C10_OperandsBySelector ==
    (prog = "advanced_calculator" /\ choice # Unbound) =>
        LET want == C10_Prompts(choice.chars)
            k == Len(OperandPrompts)
        IN  /\ k <= Len(want)
            /\ OperandPrompts = SubSeq(want, 1, k)
            /\ Len(OperandInputs) = k
            /\ choice.chars = <<"6">> => num2 = Unbound
            /\ (pc \in {"computing", "printing_result"} \/ called # <<>>) =>
                    /\ k = Len(want)
                    /\ num = ParseFloat(OperandInputs[1])
                    /\ choice.chars # <<"6">> => num2 = ParseFloat(OperandInputs[2])
            /\ called # <<>> =>
                    /\ called = <<[f |-> C10_Function(choice.chars),
                                  args |-> IF choice.chars = <<"6">> THEN <<num>>
                                           ELSE <<num, num2>>]>>
                    /\ \A j \in 1..Len(called[1].args) : IsFloat(called[1].args[j])
            /\ (pc = "terminal" /\ result # Unbound) =>
                    Last(out) =
                        IF choice.chars = <<"6">>
                        THEN "Square root of " \o Show(num) \o " = " \o Show(result)
                        ELSE Show(num) \o C10_Symbol(choice.chars) \o Show(num2)
                                \o " = " \o Show(result)

C10_Witness ==
    /\ prog = "advanced_calculator" /\ pc = "terminal"
    /\ choice.chars = <<"6">>
    /\ OperandInputs = <<IntText(16)>>
    /\ num2 = Unbound
    /\ Last(out) = "Square root of 16.0 = 4.0"

\* the result line the branch of the accepted selector prints
ResultLine ==
    IF prog = "calculator" THEN CalcLine(choice.chars, num, num2, result)
    ELSE AdvLine(choice.chars, num, num2, result)

\* C2 (as claimed): in both menu loops a selector outside the enumerated set
\* is rejected and asked for again, any number of times, without ending the
\* run and without reading an operand; once a valid selector and operands
\* that convert follow, the run prints the result of that selector after
\* the rejection lines, and nothing else.
C2_RejectedThenResult ==
    IsCalc =>
        /\ pc = "awaiting_choice" =>
                /\ Len(inputs) = rejected
                /\ \A j \in 1..rejected :
                        inputs[j] \notin (IF prog = "calculator" THEN CalcChoices
                                          ELSE AdvChoices)
                /\ num = Unbound /\ num2 = Unbound
                /\ out = MenuAndRejections
        /\ (pc = "terminal" /\ rejected > 0 /\ OperandsConverted) =>
                /\ exc = Unbound
                /\ result # Unbound
                /\ out = MenuAndRejections \o <<ResultLine>>

\* C3 (as claimed): the simple calculator given the lines "3", "4", "5"
\* prints the result line 4.0 + 5.0 = 9.0.
C3_ThreeFourFiveAdds ==
    (prog = "calculator" /\ pc = "terminal"
        /\ inputs = <<IntText(3), IntText(4), IntText(5)>>) =>
            Last(out) = "4.0 + 5.0 = 9.0"

\* C3 (amended): the simple calculator given the lines "3", "4", "5" divides
\* 4 by 5 and prints, after its menu, exactly the result line
\* 4.0 / 5.0 = 0.8; the line 4.0 + 5.0 = 9.0 is what it prints, after its
\* menu, for the lines "1", "4", "5".
C3_ThreeFourFiveDivides ==
    (prog = "calculator" /\ pc = "terminal") =>
        /\ inputs = <<IntText(3), IntText(4), IntText(5)>> =>
                /\ called = <<[f |-> "divide", args |-> <<num, num2>>]>>
                /\ out = CalcMenu \o <<"4.0 / 5.0 = 0.8">>
        /\ inputs = <<IntText(1), IntText(4), IntText(5)>> =>
                /\ called = <<[f |-> "add", args |-> <<num, num2>>]>>
                /\ out = CalcMenu \o <<"4.0 + 5.0 = 9.0">>

C3_Witness ==
    /\ prog = "calculator" /\ pc = "terminal"
    /\ inputs = <<IntText(3), IntText(4), IntText(5)>>
    /\ Last(out) = "4.0 / 5.0 = 0.8"

\* the transitions of the menu loop as the state machine lists them (the
\* run stays in awaiting_operands between its two operands)
C7_Listed ==
    {<<"awaiting_choice", "awaiting_choice">>,
     <<"awaiting_choice", "awaiting_operands">>,
     <<"awaiting_operands", "awaiting_operands">>,
     <<"awaiting_operands", "computing">>,
     <<"computing", "printing_result">>,
     <<"printing_result", "terminal">>}

\* C7 (as claimed): every step of a calculator run is one of the listed
\* transitions, so a run that leaves awaiting_operands goes through
\* computing and printing_result before terminal.
C7_OnlyListedTransitions ==
    [][IsCalc => <<pc, pc'>> \in C7_Listed]_vars

\* C7 (amended): every step of a calculator run is one of the listed
\* transitions, or awaiting_operands -> terminal when the text of an operand
\* fails the numeric conversion (the invalid-input message is printed, no
\* function is called), or, in the advanced calculator, computing ->
\* terminal when the computation raises (power on a zero base and a
\* negative exponent; nothing is printed); a selector is accepted once, a
\* result line is printed only from printing_result, and no step is taken
\* after terminal.
C7_SinglePass ==
    [][IsCalc =>
        /\ pc # "terminal"
        /\ \/ <<pc, pc'>> \in C7_Listed
           \/ /\ <<pc, pc'>> = <<"awaiting_operands", "terminal">>
              /\ IsRaise(ParseFloat(Last(inputs')))
              /\ out' = Append(out, ConversionLine)
              /\ called' = <<>>
           \/ /\ <<pc, pc'>> = <<"computing", "terminal">>
              /\ prog = "advanced_calculator"
              /\ IsRaise(exc') /\ called'[1].f = "power"
              /\ out' = out
        /\ pc # "awaiting_choice" => choice' = choice
        /\ (pc = "awaiting_choice") = (Len(prompts) = rejected)
        /\ pc # "printing_result" =>
                (out' = out \/ out' = Append(out, RejectLine)
                    \/ out' = Append(out, ConversionLine))
      ]_vars

C7_Witness ==
    /\ prog = "advanced_calculator" /\ pc = "terminal"
    /\ rejected > 0
    /\ OperandsConverted
    /\ result # Unbound
    /\ out = MenuAndRejections \o <<ResultLine>>

\* C8 (as claimed): power(x, y) returns a number for every pair of numeric
\* operands and never an error outcome, so a run of the advanced calculator
\* with choice 4 and two operands that convert always prints its
\* "{a} ^ {b} = {result}" line.
C8_PowerAlwaysPrints ==
    (prog = "advanced_calculator" /\ pc = "terminal" /\ OperandsConverted
        /\ choice.chars = <<"4">>) =>
            /\ exc = Unbound
            /\ IsFloat(result)
            /\ Last(out) = Show(num) \o " ^ " \o Show(num2) \o " = " \o Show(result)

====
